---- MODULE Spec2Model ----
(***************************************************************************)
(* Model of packages/core/src/core/contentGenerator.ts: the generator      *)
(* factory (createContentGeneratorConfig, createContentGenerator) and the  *)
(* DeepSeekContentGenerator (message normalizer, response adapter, stream  *)
(* reassembler, token estimator).                                          *)
(*                                                                         *)
(* JavaScript values are tagged records (JsVal), so that undefined, null,  *)
(* the empty string and non-empty strings stay distinct and the operators  *)
(* "||", "?." and JSON.stringify are computed as the language computes     *)
(* them.  JavaScript strings are TLA+ strings (Len and \o are used).       *)
(***************************************************************************)
EXTENDS Integers, Sequences, FiniteSets, TLC

VARIABLES
    env,            \* process.env: DEEPSEEK_API_KEY, GEMINI_API_KEY
    pc,             \* "start" | "configured" | "ready" | "failed"
    cgConfig,       \* the ContentGeneratorConfig built by createContentGeneratorConfig
    openaiClients,  \* number of OpenAI transport clients constructed
    generator,      \* the ContentGenerator returned by createContentGenerator
    error,          \* message of the Error thrown by createContentGenerator ("" if none)
    call,           \* position of the caller in the current generator call
    request,        \* argument of the current call (<<>> when there is none)
    inflight,       \* transport request handed to openai.chat.completions.create
    result,         \* value the finished call resolved to (<<>> when there is none)
    stream,         \* chunks the transport stream has still to deliver
    streamOpen,     \* the transport stream handle has not been released
    genState,       \* state of the async generator convertStreamToGenerator
    held,           \* chunk the generator body is processing
    delivered,      \* chunks taken from the transport stream, in order
    fragments,      \* fragments handed to the consumer, in order
    consumer,       \* position of the consumer of the async generator
    pulls           \* number of next() requests the consumer has made

vars == <<env, pc, cgConfig, openaiClients, generator, error, call, request,
          inflight, result, stream, streamOpen, genState, held, delivered,
          fragments, consumer, pulls>>

factoryVars == <<env, pc, cgConfig, openaiClients, generator, error>>
streamVars == <<stream, streamOpen, genState, held, delivered, fragments,
                consumer, pulls>>

(***************************************************************************)
(* Bounds of the model.                                                    *)
(***************************************************************************)
MaxMsgs == 2        \* longest explicit messages sequence of a request
MaxContents == 3    \* longest contents sequence of a request
MaxChoices == 2     \* most choices in a non-streaming response
MaxChunks == 3      \* longest transport stream

(***************************************************************************)
(* JavaScript values.                                                      *)
(***************************************************************************)
JsVal(t, s, n, a, k) == [t |-> t, s |-> s, n |-> n, a |-> a, k |-> k]
Undef == JsVal("undefined", "", 0, <<>>, <<>>)
Null == JsVal("null", "", 0, <<>>, <<>>)
Str(s) == JsVal("string", s, 0, <<>>, <<>>)
Num(n) == JsVal("number", "", n, <<>>, <<>>)
Arr(a) == JsVal("array", "", 0, a, <<>>)
Obj(k, a) == JsVal("object", "", 0, a, k)

\* ToBoolean: undefined, null, "" and 0 are falsy; objects and arrays are truthy.
Truthy(v) ==
    CASE v.t = "undefined" -> FALSE
      [] v.t = "null" -> FALSE
      [] v.t = "string" -> v.s # ""
      [] v.t = "number" -> v.n # 0
      [] OTHER -> TRUE

\* a || b
Or(a, b) == IF Truthy(a) THEN a ELSE b

\* typeof v
TypeOf(v) ==
    CASE v.t = "null" -> "object"
      [] v.t = "array" -> "object"
      [] OTHER -> v.t

\* An optional array-valued property: absent (undefined) or a sequence.
Absent == [has |-> FALSE, items |-> <<>>]
Present(items) == [has |-> TRUE, items |-> items]

\* All sequences over S of length 0..n.
SeqsUpTo(S, n) == UNION {[1..m -> S] : m \in 0..n}

Digit(d) ==
    CASE d = 0 -> "0" [] d = 1 -> "1" [] d = 2 -> "2" [] d = 3 -> "3"
      [] d = 4 -> "4" [] d = 5 -> "5" [] d = 6 -> "6" [] d = 7 -> "7"
      [] d = 8 -> "8" [] d = 9 -> "9"

\* Number.prototype.toString for a non-negative integer.
RECURSIVE NumText(_)
NumText(n) == IF n < 10 THEN Digit(n) ELSE NumText(n \div 10) \o Digit(n % 10)

\* Array.prototype.join on an array of strings.
RECURSIVE Join(_, _)
Join(strs, sep) ==
    IF Len(strs) = 0 THEN ""
    ELSE IF Len(strs) = 1 THEN strs[1]
    ELSE strs[1] \o sep \o Join(Tail(strs), sep)

\* JSON.stringify of a JSON-serialisable value (no character of the strings
\* used here needs escaping).
RECURSIVE JSONstringify(_)
JSONstringify(v) ==
    CASE v.t = "string" -> "\"" \o v.s \o "\""
      [] v.t = "number" -> NumText(v.n)
      [] v.t = "null" -> "null"
      [] v.t = "array" ->
            "[" \o Join([i \in 1..Len(v.a) |-> JSONstringify(v.a[i])], ",") \o "]"
      [] v.t = "object" ->
            "{" \o Join([i \in 1..Len(v.a) |->
                            "\"" \o v.k[i] \o "\":" \o JSONstringify(v.a[i])], ",")
                \o "}"

(***************************************************************************)
(* Generator factory.                                                      *)
(***************************************************************************)
USE_DEEPSEEK == "deepseek-api-key"
LOGIN_WITH_GOOGLE == "oauth-personal"
USE_GEMINI == "gemini-api-key"
USE_VERTEX_AI == "vertex-ai"
CLOUD_SHELL == "cloud-shell"
AuthType == {USE_DEEPSEEK, LOGIN_WITH_GOOGLE, USE_GEMINI, USE_VERTEX_AI, CLOUD_SHELL}

DEFAULT_DEEPSEEK_MODEL == "deepseek-chat"
DEFAULT_DEEPSEEK_REASONER_MODEL == "deepseek-reasoner"
BaseURL == "https://api.deepseek.com"

\* The authType argument: a member of the enum, or undefined.
AuthTypeArgs == {Str(a) : a \in AuthType} \cup {Undef}
\* config.getModel(): unset (empty) or a runtime model.
ConfigModels == {Str(""), Str(DEFAULT_DEEPSEEK_REASONER_MODEL)}
\* Values an environment variable can have: unset, set to "", set to a key.
DeepSeekKeys == {Undef, Str(""), Str("sk-deepseek")}
GeminiKeys == {Undef, Str("sk-gemini")}

\* `${v}` for a string or undefined.
TemplateText(v) == IF v.t = "undefined" THEN "undefined" ELSE v.s

createContentGeneratorConfig(e, configModel, authType) ==
    LET deepSeekApiKey == Or(e.DEEPSEEK_API_KEY, Undef)
        effectiveModel == Or(configModel, Str(DEFAULT_DEEPSEEK_MODEL))
        contentGeneratorConfig ==
            [model |-> effectiveModel.s, authType |-> authType, proxy |-> Undef,
             baseURL |-> BaseURL, apiKey |-> Undef]
        geminiApiKey == Or(e.GEMINI_API_KEY, Undef)
    IN  IF authType = Str(USE_DEEPSEEK) /\ Truthy(deepSeekApiKey)
        THEN [contentGeneratorConfig EXCEPT !.apiKey = deepSeekApiKey]
        ELSE IF authType = Str(LOGIN_WITH_GOOGLE) \/ authType = Str(CLOUD_SHELL)
        THEN contentGeneratorConfig
        ELSE IF authType = Str(USE_GEMINI) /\ Truthy(geminiApiKey)
        THEN [contentGeneratorConfig EXCEPT !.apiKey = geminiApiKey]
        ELSE contentGeneratorConfig

NoGenerator == [kind |-> "none", model |-> ""]
KeyRequiredError ==
    "DeepSeek API key is required. Please set DEEPSEEK_API_KEY environment variable."
UnsupportedPrefix == "Error creating contentGenerator: Unsupported authType: "

\* Mutant: the transport client is constructed before the key is looked at.
createContentGenerator_clientFirst(config) ==
    IF config.authType = Str(USE_DEEPSEEK)
    THEN IF ~Truthy(config.apiKey)
         THEN [error |-> KeyRequiredError, clients |-> 1, generator |-> NoGenerator]
         ELSE [error |-> "", clients |-> 1,
               generator |-> [kind |-> "DeepSeekContentGenerator",
                              model |-> config.model]]
    ELSE IF config.authType = Str(LOGIN_WITH_GOOGLE)
            \/ config.authType = Str(CLOUD_SHELL)
    THEN [error |-> "", clients |-> 0,
          generator |-> [kind |-> "LoggingContentGenerator", model |-> ""]]
    ELSE [error |-> UnsupportedPrefix \o TemplateText(config.authType),
          clients |-> 0, generator |-> NoGenerator]

\* Mutant: any config that carries an API key takes the DeepSeek path.
createContentGenerator_anyKey(config) ==
    IF config.authType = Str(USE_DEEPSEEK) \/ Truthy(config.apiKey)
    THEN IF ~Truthy(config.apiKey)
         THEN [error |-> KeyRequiredError, clients |-> 0, generator |-> NoGenerator]
         ELSE [error |-> "", clients |-> 1,
               generator |-> [kind |-> "DeepSeekContentGenerator",
                              model |-> config.model]]
    ELSE IF config.authType = Str(LOGIN_WITH_GOOGLE)
            \/ config.authType = Str(CLOUD_SHELL)
    THEN [error |-> "", clients |-> 0,
          generator |-> [kind |-> "LoggingContentGenerator", model |-> ""]]
    ELSE [error |-> UnsupportedPrefix \o TemplateText(config.authType),
          clients |-> 0, generator |-> NoGenerator]

\* What createContentGenerator does with a config: the Error it throws ("" when
\* it returns), the OpenAI clients it constructs, the generator it returns.
createContentGenerator(config) ==
    IF config.authType = Str(USE_DEEPSEEK)
    THEN IF ~Truthy(config.apiKey)
         THEN [error |-> KeyRequiredError, clients |-> 0, generator |-> NoGenerator]
         ELSE [error |-> "", clients |-> 1,
               generator |-> [kind |-> "DeepSeekContentGenerator",
                              model |-> config.model]]
    ELSE IF config.authType = Str(LOGIN_WITH_GOOGLE)
            \/ config.authType = Str(CLOUD_SHELL)
    THEN [error |-> "", clients |-> 0,
          generator |-> [kind |-> "LoggingContentGenerator", model |-> ""]]
    ELSE [error |-> UnsupportedPrefix \o TemplateText(config.authType),
          clients |-> 0, generator |-> NoGenerator]

NoConfig ==
    [model |-> "", authType |-> Undef, proxy |-> Undef, baseURL |-> "",
     apiKey |-> Undef]

(***************************************************************************)
(* Message normalizer.                                                     *)
(***************************************************************************)
Message(role, content) == [role |-> role, content |-> content]

\* Mutant: every element is serialised, strings included.
StringForm_alwaysJson(content) == JSONstringify(content)

\* typeof content === 'string' ? content : JSON.stringify(content)
StringForm(content) ==
    IF TypeOf(content) = "string" THEN content.s ELSE JSONstringify(content)

\* Mutant: an explicit messages sequence counts only when it is non-empty
\* (if (request.messages?.length)).
NormalizedMessages_nonEmptyOnly(req) ==
    IF req.messages.has /\ Len(req.messages.items) > 0 THEN req.messages.items
    ELSE IF req.contents.has
    THEN [index \in 1..Len(req.contents.items) |->
            Message(IF (index - 1) % 2 = 0 THEN "user" ELSE "assistant",
                    StringForm(req.contents.items[index]))]
    ELSE <<Message("user", "Hello")>>

\* The messages convertGeminiToOpenAI builds (index is 1-based here, 0-based
\* in the source).
NormalizedMessages(req) ==
    IF req.messages.has THEN req.messages.items
    ELSE IF req.contents.has
    THEN [index \in 1..Len(req.contents.items) |->
            Message(IF (index - 1) % 2 = 0 THEN "user" ELSE "assistant",
                    StringForm(req.contents.items[index]))]
    ELSE <<Message("user", "Hello")>>

\* Mutant: only an undefined override falls back (request.model ?? this.model).
EffectiveModel_nullish(req, thisModel) ==
    IF req.model.t = "undefined" THEN Str(thisModel) ELSE req.model

\* request.model || this.model
EffectiveModel(req, thisModel) == Or(req.model, Str(thisModel))

convertGeminiToOpenAI(req, thisModel) ==
    [messages |-> NormalizedMessages(req),
     model |-> EffectiveModel(req, thisModel),
     max_tokens |-> req.max_tokens,
     temperature |-> req.temperature]

\* { ...openaiRequest, stream }
WithStream(openaiRequest, flag) ==
    [messages |-> openaiRequest.messages, model |-> openaiRequest.model,
     max_tokens |-> openaiRequest.max_tokens,
     temperature |-> openaiRequest.temperature, stream |-> flag]

(***************************************************************************)
(* Response adapter.                                                       *)
(***************************************************************************)
\* response.choices?.[0]?.message?.content
FirstContent(response) ==
    IF ~response.choices.has THEN Undef
    ELSE IF Len(response.choices.items) = 0 THEN Undef
    ELSE IF ~response.choices.items[1].hasMessage THEN Undef
    ELSE response.choices.items[1].message.content

\* choice.message?.content and choice.message?.role
MessageContent(choice) == IF choice.hasMessage THEN choice.message.content ELSE Undef
MessageRole(choice) == IF choice.hasMessage THEN choice.message.role ELSE Undef

\* Mutant: the text shortcut is taken without its '' default.
ResponseText_noDefault(response) == FirstContent(response)

\* response.choices?.[0]?.message?.content || ''
ResponseText(response) == Or(FirstContent(response), Str(""))

\* response.choices?.map(...)
ResponseChoices(response) ==
    IF response.choices.has
    THEN Present([i \in 1..Len(response.choices.items) |->
            [message |->
                [content |-> Or(MessageContent(response.choices.items[i]), Str("")),
                 role |-> Or(MessageRole(response.choices.items[i]),
                             Str("assistant"))],
             finish_reason |-> response.choices.items[i].finish_reason]])
    ELSE Absent

convertOpenAIToGemini(response) ==
    [text |-> ResponseText(response),
     choices |-> ResponseChoices(response),
     data |-> response,
     functionCalls |-> Present(<<>>),
     executableCode |-> Undef,
     codeExecutionResult |-> Undef]

(***************************************************************************)
(* Stream reassembler: the envelope built from one chunk.                  *)
(***************************************************************************)
ZeroUsage ==
    [has |-> TRUE, prompt_tokens |-> 0, completion_tokens |-> 0, total_tokens |-> 0]

\* choice.delta?.role and choice.delta?.content
DeltaRole(choice) == IF choice.hasDelta THEN choice.delta.role ELSE Undef
DeltaContent(choice) == IF choice.hasDelta THEN choice.delta.content ELSE Undef

chunkToCompletion(chunk) ==
    [id |-> chunk.id,
     object |-> "chat.completion",
     created |-> chunk.created,
     model |-> chunk.model,
     choices |->
        IF chunk.choices.has
        THEN Present([i \in 1..Len(chunk.choices.items) |->
                [index |-> chunk.choices.items[i].index,
                 hasMessage |-> TRUE,
                 message |->
                    [role |-> Or(DeltaRole(chunk.choices.items[i]), Str("assistant")),
                     content |-> Or(DeltaContent(chunk.choices.items[i]), Str(""))],
                 finish_reason |-> chunk.choices.items[i].finish_reason]])
        ELSE Present(<<>>),
     usage |-> IF chunk.usage.has THEN chunk.usage ELSE ZeroUsage]

\* The value convertStreamToGenerator yields for one chunk.
fragmentOfChunk(chunk) == convertOpenAIToGemini(chunkToCompletion(chunk))

(***************************************************************************)
(* Token estimator.                                                        *)
(***************************************************************************)
CharsPerToken == 4

\* Mutant: the quotient is rounded down.
Ceil_floor(a, b) == a \div b

\* Math.ceil(a / b) for a >= 0, b > 0
Ceil(a, b) == (a + b - 1) \div b

countTokens(req) ==
    LET totalContent ==
            IF req.contents.has
            THEN Join([i \in 1..Len(req.contents.items) |->
                          StringForm(req.contents.items[i])], " ")
            ELSE ""
        estimatedTokens == Ceil(Len(totalContent), CharsPerToken)
    IN  [totalTokens |-> estimatedTokens]

(***************************************************************************)
(* Inputs: requests of the callers, answers of the transport.              *)
(***************************************************************************)
MessageUniverse ==
    {Message("system", "Be brief"), Message("user", "Hi"), Message("assistant", "")}

ContentUniverse ==
    {Str("abcd"), Str("efgh"), Str(""), Num(12), Null,
     Obj(<<"text">>, <<Str("hi")>>), Arr(<<Str("x"), Num(0)>>)}

ModelOverrides == {Undef, Str(""), Str("deepseek-coder")}
Limits ==
    {[max_tokens |-> Undef, temperature |-> Undef],
     [max_tokens |-> Num(50), temperature |-> Num(1)]}

MessagesArgs == {Present(m) : m \in SeqsUpTo(MessageUniverse, MaxMsgs)}
ContentsArgs == {Absent} \cup {Present(c) : c \in SeqsUpTo(ContentUniverse, MaxContents)}
\* contents that accompany an explicit messages sequence
ContentsBesideMessages == {Absent, Present(<<>>), Present(<<Str("abcd"), Num(12)>>)}

Request(m, c, md, l) ==
    [messages |-> m, contents |-> c, model |-> md,
     max_tokens |-> l.max_tokens, temperature |-> l.temperature]

Requests ==
    {Request(m, c, md, l) :
        m \in MessagesArgs, c \in ContentsBesideMessages, md \in ModelOverrides,
        l \in Limits}
    \cup
    {Request(Absent, c, md, l) : c \in ContentsArgs, md \in ModelOverrides, l \in Limits}

CountRequests == {[model |-> DEFAULT_DEEPSEEK_MODEL, contents |-> c] : c \in ContentsArgs}

\* A choice of a full response: message absent, or content and role each
\* undefined, null, empty or set.
Choice(hasMessage, content, role, finish) ==
    [index |-> 0, hasMessage |-> hasMessage,
     message |-> [content |-> content, role |-> role], finish_reason |-> finish]

ChoiceUniverse ==
    {Choice(FALSE, Undef, Undef, Str("stop"))}
    \cup {Choice(TRUE, c, r, Str("stop")) :
            c \in {Undef, Null, Str(""), Str("Hi")}, r \in {Undef, Str("assistant")}}
    \cup {Choice(TRUE, Str("Hi"), Str("tool"), Str("length"))}

Response(choices) ==
    [id |-> "cmpl-1", object |-> "chat.completion", created |-> 1,
     model |-> DEFAULT_DEEPSEEK_MODEL, choices |-> choices,
     usage |-> [has |-> TRUE, prompt_tokens |-> 1, completion_tokens |-> 1,
                total_tokens |-> 2]]

Responses ==
    {Response(Absent)}
    \cup {Response(Present(c)) : c \in SeqsUpTo(ChoiceUniverse, MaxChoices)}

NoUsage ==
    [has |-> FALSE, prompt_tokens |-> 0, completion_tokens |-> 0, total_tokens |-> 0]

ChunkChoice(hasDelta, role, content, finish) ==
    [index |-> 0, hasDelta |-> hasDelta,
     delta |-> [role |-> role, content |-> content], finish_reason |-> finish]

Chunk(choices, usage) ==
    [id |-> "cmpl-2", created |-> 2, model |-> DEFAULT_DEEPSEEK_MODEL,
     choices |-> choices, usage |-> usage]

ChunkUniverse ==
    {Chunk(Absent, NoUsage),
     Chunk(Present(<<>>),
           [has |-> TRUE, prompt_tokens |-> 3, completion_tokens |-> 2,
            total_tokens |-> 5]),
     Chunk(Present(<<ChunkChoice(FALSE, Undef, Undef, Str("stop"))>>), NoUsage),
     Chunk(Present(<<ChunkChoice(TRUE, Str("assistant"), Str(""), Null)>>), NoUsage),
     Chunk(Present(<<ChunkChoice(TRUE, Undef, Str("Hi"), Null)>>), NoUsage),
     Chunk(Present(<<ChunkChoice(TRUE, Undef, Null, Str("stop"))>>), NoUsage)}

Streams == SeqsUpTo(ChunkUniverse, MaxChunks)

(***************************************************************************)
(* State machine.                                                          *)
(***************************************************************************)
StreamIdle ==
    /\ stream = <<>>
    /\ streamOpen = FALSE
    /\ genState = "none"
    /\ held = <<>>
    /\ delivered = <<>>
    /\ fragments = <<>>
    /\ consumer = "none"
    /\ pulls = 0

Init ==
    /\ env \in [DEEPSEEK_API_KEY : DeepSeekKeys, GEMINI_API_KEY : GeminiKeys]
    /\ pc = "start"
    /\ cgConfig = NoConfig
    /\ openaiClients = 0
    /\ generator = NoGenerator
    /\ error = ""
    /\ call = "idle"
    /\ request = <<>>
    /\ inflight = <<>>
    /\ result = <<>>
    /\ StreamIdle

CreateContentGeneratorConfig ==
    /\ pc = "start"
    /\ \E authType \in AuthTypeArgs, configModel \in ConfigModels :
          cgConfig' = createContentGeneratorConfig(env, configModel, authType)
    /\ pc' = "configured"
    /\ UNCHANGED <<env, openaiClients, generator, error, call, request, inflight,
                   result, streamVars>>

CreateContentGenerator ==
    /\ pc = "configured"
    /\ LET outcome == createContentGenerator(cgConfig)
       IN  /\ error' = outcome.error
           /\ openaiClients' = openaiClients + outcome.clients
           /\ generator' = outcome.generator
           /\ pc' = IF outcome.error = "" THEN "ready" ELSE "failed"
    /\ UNCHANGED <<env, cgConfig, call, request, inflight, result, streamVars>>

\* The calls below are methods of DeepSeekContentGenerator.
CanCall ==
    /\ pc = "ready"
    /\ generator.kind = "DeepSeekContentGenerator"
    /\ call = "idle"

\* generateContent up to its await: normalise and hand to the transport.
GenerateContent ==
    /\ CanCall
    /\ \E req \in Requests :
          /\ request' = <<req>>
          /\ inflight' =
                <<WithStream(convertGeminiToOpenAI(req, generator.model), FALSE)>>
    /\ call' = "generateContent"
    /\ UNCHANGED <<factoryVars, result, streamVars>>

\* generateContentStream up to its await.
GenerateContentStream ==
    /\ CanCall
    /\ \E req \in Requests :
          /\ request' = <<req>>
          /\ inflight' =
                <<WithStream(convertGeminiToOpenAI(req, generator.model), TRUE)>>
    /\ call' = "generateContentStream"
    /\ UNCHANGED <<factoryVars, result, streamVars>>

\* The transport client takes the request off the caller's hands.
TransportTake ==
    /\ call \in {"generateContent", "generateContentStream"}
    /\ inflight # <<>>
    /\ inflight' = <<>>
    /\ request' = <<>>
    /\ UNCHANGED <<factoryVars, call, result, streamVars>>

\* generateContent after its await: the transport answers, the answer is adapted.
TransportRespond ==
    /\ call = "generateContent"
    /\ inflight = <<>>
    /\ \E response \in Responses : result' = <<convertOpenAIToGemini(response)>>
    /\ call' = "returned"
    /\ UNCHANGED <<factoryVars, request, inflight, streamVars>>

\* generateContentStream after its await: the transport hands back a stream and
\* the async generator over it is returned, not yet started.
TransportOpenStream ==
    /\ call = "generateContentStream"
    /\ inflight = <<>>
    /\ call' = "streaming"
    /\ \E chunks \in Streams : stream' = chunks
    /\ streamOpen' = TRUE
    /\ genState' = "suspendedStart"
    /\ consumer' = "ready"
    /\ UNCHANGED <<factoryVars, request, inflight, result, held, delivered,
                   fragments, pulls>>

\* The consumer asks for the next fragment: the generator body resumes.
ConsumerNext ==
    /\ call = "streaming"
    /\ consumer = "ready"
    /\ genState \in {"suspendedStart", "suspendedYield"}
    /\ genState' = "executing"
    /\ consumer' = "waiting"
    /\ pulls' = pulls + 1
    /\ UNCHANGED <<factoryVars, call, request, inflight, result, stream, streamOpen,
                   held, delivered, fragments>>

\* Mutant: chunks are taken from the transport whether or not the consumer
\* has asked for a fragment, and queue up in the generator.
PullChunk_eager ==
    /\ genState \in {"executing", "suspendedYield"}
    /\ streamOpen
    /\ stream # <<>>
    /\ held' = Append(held, Head(stream))
    /\ delivered' = Append(delivered, Head(stream))
    /\ stream' = Tail(stream)
    /\ UNCHANGED <<factoryVars, call, request, inflight, result, streamOpen, genState,
                   fragments, consumer, pulls>>

\* for await (const chunk of stream): the running body takes the next chunk.
PullChunk ==
    /\ genState = "executing"
    /\ held = <<>>
    /\ streamOpen
    /\ stream # <<>>
    /\ held' = <<Head(stream)>>
    /\ delivered' = Append(delivered, Head(stream))
    /\ stream' = Tail(stream)
    /\ UNCHANGED <<factoryVars, call, request, inflight, result, streamOpen, genState,
                   fragments, consumer, pulls>>

\* Mutant: a chunk without choices is skipped instead of yielded.
YieldFragment_skipEmpty ==
    /\ genState = "executing"
    /\ held # <<>>
    /\ IF Head(held).choices.has /\ Len(Head(held).choices.items) > 0
       THEN /\ fragments' = Append(fragments, fragmentOfChunk(Head(held)))
            /\ genState' = "suspendedYield"
            /\ consumer' = "ready"
       ELSE UNCHANGED <<fragments, genState, consumer>>
    /\ held' = Tail(held)
    /\ UNCHANGED <<factoryVars, call, request, inflight, result, stream, streamOpen,
                   delivered, pulls>>

\* The loop body: build the envelope, adapt it, yield it; the body suspends.
YieldFragment ==
    /\ genState = "executing"
    /\ held # <<>>
    /\ fragments' = Append(fragments, fragmentOfChunk(Head(held)))
    /\ held' = Tail(held)
    /\ genState' = "suspendedYield"
    /\ consumer' = "ready"
    /\ UNCHANGED <<factoryVars, call, request, inflight, result, stream, streamOpen,
                   delivered, pulls>>

\* The transport stream is exhausted: the loop ends and the generator completes.
StreamEnd ==
    /\ genState = "executing"
    /\ held = <<>>
    /\ stream = <<>>
    /\ genState' = "completed"
    /\ streamOpen' = FALSE
    /\ consumer' = "done"
    /\ UNCHANGED <<factoryVars, call, request, inflight, result, stream, held,
                   delivered, fragments, pulls>>

\* The consumer stops iterating (return()): a generator suspended at its yield
\* leaves the for await loop, which releases the transport stream; a generator
\* that never started completes without running.
ConsumerStop ==
    /\ call = "streaming"
    /\ consumer = "ready"
    /\ genState \in {"suspendedStart", "suspendedYield"}
    /\ genState' = "completed"
    /\ streamOpen' = IF genState = "suspendedYield" THEN FALSE ELSE streamOpen
    /\ consumer' = "stopped"
    /\ UNCHANGED <<factoryVars, call, request, inflight, result, stream, held,
                   delivered, fragments, pulls>>

CountTokens ==
    /\ CanCall
    /\ call' = "countTokens"
    /\ \E req \in CountRequests :
          /\ request' = <<req>>
          /\ result' = <<countTokens(req)>>
    /\ UNCHANGED <<factoryVars, inflight, streamVars>>

\* The caller has its result (or is done with the stream); the next call may start.
ReturnToCaller ==
    /\ \/ call \in {"returned", "countTokens"}
       \/ call = "streaming" /\ consumer \in {"done", "stopped"}
    /\ call' = "idle"
    /\ request' = <<>>
    /\ result' = <<>>
    /\ stream' = <<>>
    /\ streamOpen' = FALSE
    /\ genState' = "none"
    /\ held' = <<>>
    /\ delivered' = <<>>
    /\ fragments' = <<>>
    /\ consumer' = "none"
    /\ pulls' = 0
    /\ UNCHANGED <<factoryVars, inflight>>

Next ==
    \/ CreateContentGeneratorConfig
    \/ CreateContentGenerator
    \/ GenerateContent
    \/ GenerateContentStream
    \/ TransportTake
    \/ TransportRespond
    \/ TransportOpenStream
    \/ ConsumerNext
    \/ PullChunk
    \/ YieldFragment
    \/ StreamEnd
    \/ ConsumerStop
    \/ CountTokens
    \/ ReturnToCaller

Spec == Init /\ [][Next]_vars

(***************************************************************************)
(* Properties.                                                             *)
(***************************************************************************)
IsNonEmptyString(v) == v.t = "string" /\ v.s # ""

\* text == choices[0].message.content when there is a first choice, else "".
TextInvariant(r) ==
    /\ (r.choices.has /\ Len(r.choices.items) > 0)
          => r.text = r.choices.items[1].message.content
    /\ (~r.choices.has \/ Len(r.choices.items) = 0) => r.text = Str("")

\* C1: the result of generateContent has text equal to the content of its
\* first choice when it has choices, and text "" when it has none, whatever
\* the content and role of the backend's first choice (set, null, missing).
C1_TextIsFirstChoiceContent ==
    call = "returned" => TextInvariant(result[1])

\* C1 witness: a result adapted from a response whose first choice has a
\* message with null content and no role.
C1_Witness ==
    /\ call = "returned"
    /\ result[1].data.choices.has
    /\ Len(result[1].data.choices.items) > 0
    /\ result[1].data.choices.items[1].hasMessage
    /\ result[1].data.choices.items[1].message.content = Null
    /\ result[1].data.choices.items[1].message.role = Undef
    /\ result[1].text = Str("")

\* What fragment i must be, told from chunk i alone: as many choices as the
\* chunk has (none when it has no choices property), each with the delta's
\* content and role when those are non-empty strings and "" / "assistant"
\* otherwise, and the chunk's finish_reason.
FragmentFromChunk(f, c) ==
    /\ f.choices.has
    /\ Len(f.choices.items) = (IF c.choices.has THEN Len(c.choices.items) ELSE 0)
    /\ \A j \in 1..Len(f.choices.items) :
          LET d == c.choices.items[j]
              m == f.choices.items[j].message
          IN  /\ m.content = (IF d.hasDelta /\ IsNonEmptyString(d.delta.content)
                              THEN d.delta.content ELSE Str(""))
              /\ m.role = (IF d.hasDelta /\ IsNonEmptyString(d.delta.role)
                           THEN d.delta.role ELSE Str("assistant"))
              /\ f.choices.items[j].finish_reason = d.finish_reason
    /\ f.data.id = c.id
    /\ f.data.model = c.model
    /\ f.data.created = c.created

\* C2: the fragments handed to the consumer are, in order, one per chunk taken
\* from the transport stream, the i-th made from the i-th chunk, each with
\* text == choices[0].message.content (or ""); and when the generator has ended
\* because the stream ended, every chunk of the stream has its fragment: N
\* chunks gave exactly N fragments.
C2_OneFragmentPerChunk ==
    call = "streaming" =>
        /\ Len(fragments) <= Len(delivered)
        /\ \A i \in 1..Len(fragments) :
              /\ FragmentFromChunk(fragments[i], delivered[i])
              /\ TextInvariant(fragments[i])
        /\ consumer = "done" =>
              /\ stream = <<>>
              /\ Len(fragments) = Len(delivered)
              /\ Len(fragments) = pulls - 1

\* C2 witness: a stream of at least two chunks, one of them without a choices
\* property, has been consumed to its end.
C2_Witness ==
    /\ call = "streaming"
    /\ consumer = "done"
    /\ Len(fragments) >= 2
    /\ \E i \in 1..Len(delivered) : ~delivered[i].choices.has

\* The kinds of values a LegacyResponse holds.
Shape(r) ==
    [text |-> r.text.t,
     choices |-> IF r.choices.has THEN "sequence" ELSE "undefined",
     messages |-> {[content |-> r.choices.items[j].message.content.t,
                    role |-> r.choices.items[j].message.role.t] :
                        j \in 1..Len(r.choices.items)},
     functionCalls |-> IF r.functionCalls.has /\ r.functionCalls.items = <<>>
                       THEN "empty" ELSE "other",
     executableCode |-> r.executableCode.t,
     codeExecutionResult |-> r.codeExecutionResult.t]

\* The shape of a LegacyResponse: text a string, choices a sequence of
\* {message: {content, role}} with string content and role, functionCalls
\* empty, executableCode and codeExecutionResult absent.
HasLegacyShape(r) ==
    /\ Shape(r).text = "string"
    /\ Shape(r).choices = "sequence"
    /\ Shape(r).messages \subseteq {[content |-> "string", role |-> "string"]}
    /\ Shape(r).functionCalls = "empty"
    /\ Shape(r).executableCode = "undefined"
    /\ Shape(r).codeExecutionResult = "undefined"

\* Every fragment of a stream has the one shape of a LegacyResponse.
StreamedShape ==
    call = "streaming" => \A i \in 1..Len(fragments) : HasLegacyShape(fragments[i])

\* C3: streamed fragments and generateContent results are structurally
\* indistinguishable: each has the one shape of a LegacyResponse (text a
\* string, choices a sequence, functionCalls empty, executableCode and
\* codeExecutionResult absent), also when the chunk or the full response has
\* no or empty choices.
C3_SameShape ==
    /\ StreamedShape
    /\ call = "returned" => HasLegacyShape(result[1])

Constructed == pc \in {"ready", "failed"}

\* C4: with authType USE_DEEPSEEK and no API key in the config (as
\* createContentGeneratorConfig leaves it when DEEPSEEK_API_KEY is unset),
\* createContentGenerator fails with the credential-missing error, constructs
\* no transport client, returns no generator, and no transport request is
\* ever issued.
C4_MissingKeyFailsBeforeClient ==
    /\ (pc # "start" /\ cgConfig.authType = Str(USE_DEEPSEEK)
            /\ env.DEEPSEEK_API_KEY = Undef)
          => cgConfig.apiKey = Undef
    /\ (Constructed /\ cgConfig.authType = Str(USE_DEEPSEEK)
            /\ ~IsNonEmptyString(cgConfig.apiKey))
          => /\ pc = "failed"
             /\ error = KeyRequiredError
             /\ openaiClients = 0
             /\ generator = NoGenerator
             /\ call = "idle"
             /\ inflight = <<>>

\* C4 witness: construction has failed for USE_DEEPSEEK with DEEPSEEK_API_KEY unset.
C4_Witness ==
    /\ pc = "failed"
    /\ cgConfig.authType = Str(USE_DEEPSEEK)
    /\ env.DEEPSEEK_API_KEY = Undef
    /\ error = KeyRequiredError

\* The text that names an unsupported mode in the error message.
ModeName(authType) ==
    CASE authType = Str(USE_GEMINI) -> "gemini-api-key"
      [] authType = Str(USE_VERTEX_AI) -> "vertex-ai"
      [] authType = Undef -> "undefined"

UnsupportedModes == {Str(USE_GEMINI), Str(USE_VERTEX_AI), Undef}

\* C5: with USE_GEMINI, USE_VERTEX_AI or an undefined mode, with or without an
\* API key, createContentGenerator fails with an error whose message names the
\* mode, and constructs neither a transport client nor a generator.
C5_UnsupportedModeFails ==
    (Constructed /\ cgConfig.authType \in UnsupportedModes)
       => /\ pc = "failed"
          /\ error = "Error creating contentGenerator: Unsupported authType: "
                        \o ModeName(cgConfig.authType)
          /\ openaiClients = 0
          /\ generator = NoGenerator
          /\ call = "idle"
          /\ inflight = <<>>

\* C5 witness: construction has failed for USE_GEMINI with an API key in the config.
C5_Witness ==
    /\ pc = "failed"
    /\ cgConfig.authType = Str(USE_GEMINI)
    /\ IsNonEmptyString(cgConfig.apiKey)

Sent == call \in {"generateContent", "generateContentStream"} /\ inflight # <<>>

\* C6: a request with an explicit messages sequence, of any length and with or
\* without contents, reaches the transport with exactly that sequence.
C6_MessagesVerbatim ==
    (Sent /\ request[1].messages.has)
       => /\ Len(inflight[1].messages) = Len(request[1].messages.items)
          /\ \A i \in 1..Len(inflight[1].messages) :
                /\ inflight[1].messages[i].role = request[1].messages.items[i].role
                /\ inflight[1].messages[i].content
                      = request[1].messages.items[i].content

\* C6 witness: an empty explicit messages sequence, beside non-empty contents,
\* has been handed to the transport.
C6_Witness ==
    /\ Sent
    /\ request[1].messages.has
    /\ request[1].messages.items = <<>>
    /\ request[1].contents.has
    /\ Len(request[1].contents.items) > 0

\* The text of a contents element: the element itself when a string, else its
\* JSON text, written out for the elements of ContentUniverse.
ElementText(v) ==
    CASE v.t = "string" -> v.s
      [] v = Num(12) -> "12"
      [] v = Null -> "null"
      [] v = Obj(<<"text">>, <<Str("hi")>>) -> "{\"text\":\"hi\"}"
      [] v = Arr(<<Str("x"), Num(0)>>) -> "[\"x\",0]"

\* C7: a request without messages and with contents of length n reaches the
\* transport with n messages in the same order, role user at even (0-based)
\* positions and assistant at odd ones, content the element itself when a
\* string and its JSON text otherwise; role system is never produced.
C7_PositionalParity ==
    (Sent /\ ~request[1].messages.has /\ request[1].contents.has)
       => /\ Len(inflight[1].messages) = Len(request[1].contents.items)
          /\ \A i \in 1..Len(inflight[1].messages) :
                /\ inflight[1].messages[i].role
                      = (IF i % 2 = 1 THEN "user" ELSE "assistant")
                /\ inflight[1].messages[i].role # "system"
                /\ inflight[1].messages[i].content
                      = ElementText(request[1].contents.items[i])

\* C7 witness: contents [a, b, c] with a string and a non-string element were
\* sent as [user, assistant, user].
C7_Witness ==
    /\ Sent
    /\ ~request[1].messages.has
    /\ request[1].contents.has
    /\ Len(request[1].contents.items) = 3
    /\ request[1].contents.items[1].t = "string"
    /\ request[1].contents.items[2].t = "object"
    /\ inflight[1].messages[1].role = "user"
    /\ inflight[1].messages[2].role = "assistant"
    /\ inflight[1].messages[3].role = "user"

\* C8 as stated: the model sent is the request's override whenever the request
\* carries one, whatever its value, and the configured default only when it
\* carries none.
C8_OverrideAlwaysWins ==
    Sent => /\ request[1].model.t # "undefined"
                => inflight[1].model = request[1].model
            /\ request[1].model.t = "undefined"
                => inflight[1].model = Str(generator.model)

\* C8 (amended): the model sent is the request's override whenever the request
\* carries a non-empty one, and the configured default when the request
\* carries no override or an empty-string one.
C8_NonEmptyOverrideWins ==
    Sent => /\ IsNonEmptyString(request[1].model)
                => inflight[1].model = request[1].model
            /\ ~IsNonEmptyString(request[1].model)
                => inflight[1].model = Str(generator.model)

\* C8 witness: a request with an empty-string override was sent with the
\* configured default model.
C8_Witness ==
    /\ Sent
    /\ request[1].model = Str("")
    /\ inflight[1].model = Str(generator.model)

RECURSIVE SumLen(_)
SumLen(items) ==
    IF items = <<>> THEN 0 ELSE Len(ElementText(Head(items))) + SumLen(Tail(items))

\* The length of the elements' texts joined with one space between neighbours.
JoinedLength(contents) ==
    IF ~contents.has \/ contents.items = <<>> THEN 0
    ELSE SumLen(contents.items) + Len(contents.items) - 1

C10_PullDriven ==
    call = "streaming" =>
        /\ Len(held) <= 1
        /\ Len(delivered) = Len(fragments) + Len(held)
        /\ Len(delivered) <= pulls
        /\ pulls <= Len(fragments) + 1
        /\ held # <<>> => consumer = "waiting" /\ genState = "executing"
        /\ consumer = "stopped" =>
              /\ held = <<>>
              /\ genState = "completed"
              /\ Len(delivered) = Len(fragments)
              /\ Len(fragments) = pulls

\* C10 witness: the consumer stopped after one fragment while the transport
\* stream still had chunks to deliver.
C10_Witness ==
    /\ call = "streaming"
    /\ consumer = "stopped"
    /\ Len(fragments) = 1
    /\ Len(delivered) = 1
    /\ stream # <<>>

====
